---- MODULE Spec2Model ----
(***************************************************************************)
(* NEC infrared receiver of the Mosiwi space station kit                   *)
(* (src/python/Mosiwi_lib_examples/Mosiwi_nec_ir.py): the PIO pulse        *)
(* source, the PulseReader timer callback and the necDecoder poll, called  *)
(* from the application loop of src/MicroPython/main.py.  decode() runs    *)
(* statement by statement; the timer callback runs to completion between   *)
(* any two of its statements.                                              *)
(* The loop body drives the ULN2003 stepper (Mosiwi_stepper_motor.py),     *)
(* whose own 800 Hz timer callback, _step, runs between any two statements *)
(* as well.  Of the application's state, the model keeps what the decoder  *)
(* and the stepper depend on: mode, modeFlag and motorAngle.  The servo,   *)
(* the display, the LED, the buzzer and the laser are written by the loop  *)
(* and read by nothing modelled here.                                      *)
(*                                                                         *)
(* Representation notes.                                                   *)
(*  - necData is a Python int built with `|= 1 << k` and compared with     *)
(*    32-bit key codes.  It is held as the set of its set bit positions    *)
(*    (0 = least significant), so that bit 31 and 0xffffffff are exact.    *)
(*  - a word of the RX FIFO is either a 12-bit down-counter value          *)
(*    (0..4095) or the word with all bits set, 0xffffffff, written here    *)
(*    as the signed 32-bit word -1.                                        *)
(*  - int(i * factor) with factor = 2*1000000/256000 = 7.8125 = 125/16     *)
(*    is exact in binary floating point, so it is floor(i*125/16).         *)
(*  - val * 0.20 compared with an integer: for integer val the comparison  *)
(*    abs(val-e) < val*0.20 is 100*abs(val-e) < 20*val (val*0.20 rounds   *)
(*    to val/5 exactly when 5 divides val and is at least 0.2 away from    *)
(*    any integer otherwise).                                              *)
(***************************************************************************)
EXTENDS Integers, Sequences, FiniteSets, TLC

VARIABLES
  srcQueue,           \* FIFO words the pulse source has still to push for the signal on the pin
  lastSignal,         \* tick counts of the burst the pulse source measured last (or is measuring)
  nBursts,            \* number of bursts the pulse source has started
  fifo,               \* sm RX FIFO
  rawPulsesBuf,       \* PulseReader.rawPulsesBuf   (ticks)
  rawRepeatTimeBuf,   \* PulseReader.rawRepeatTimeBuf (microseconds)
  rawCommandTimeBuf,  \* PulseReader.rawCommandTimeBuf (microseconds)
  newRepeatFlag,      \* PulseReader.newRepeatFlag
  newCommandFlag,     \* PulseReader.newCommandFlag
  necData,            \* necDecoder.necData, as the set of its set bits
  commandRepeat,      \* necDecoder.commandRepeat
  ret,                \* what the decode() call that has just returned gave ("none" after any other step)
  via,                \* which path of that decode() call returned
  pre,                \* the decoder's state when that decode() call began
  lastCode,           \* necData left by the most recent successful command decode
  cmdUnread,          \* a command burst was finalised and no decode() has read the command buffer since
  repUnread,          \* a repeat burst was finalised and no decode() has read the repeat buffer since
  probe,              \* arguments of the Bit Classifier and its result (SpecMatch, SpecClassifier)
  cb,                 \* the PulseReader's state when the getPulses call that has just returned began
  call,               \* the decode() call in progress: its position and its locals
  owed,               \* the command burst finalised last, until it is passed to decodeCommand as it is
  stepper,            \* the ULN2003 object of Mosiwi_stepper_motor.py and the move() call in progress
  mode,               \* main.py: 0 = remote control, 1 = automatic
  modeFlag,           \* main.py: the mode whose banner the display shows
  motorAngle          \* main.py: the angle Remote() asks of the stepper

vars == <<srcQueue, lastSignal, nBursts, fifo, rawPulsesBuf, rawRepeatTimeBuf,
          rawCommandTimeBuf, newRepeatFlag, newCommandFlag, necData,
          commandRepeat, ret, via, pre, lastCode, cmdUnread, repUnread, probe,
          cb, call, owed, stepper, mode, modeFlag, motorAngle>>

\* The application's own variables.
Application == <<mode, modeFlag, motorAngle>>

-----------------------------------------------------------------------------
(* Program constants *)

pulseTimeout == 4095

TimeoutMarker == -1

DATA_PULSE_WIDTH == 560

START_MARK == 9000

START_SPACE == 4500

REPEAT_SPACE == 2250

ALLOWED_DEVIATION_PCT == 20

smFreq == 256000

TOP_BIT == 31

\* Key codes of the remote control (src/MicroPython/main.py, lines 18-34).
key_0 == 16750695

key_1 == 16753245

key_2 == 16736925

key_3 == 16769565

key_5 == 16712445

key_8 == 16754775

key_ok == 16726215

key_left == 16716015

key_right == 16734885

\* 0xffffffff
AllBits == 0 .. 31

-----------------------------------------------------------------------------
(* Bounds of the model *)

MaxBursts == 3

MaxSignals == 2

MaxFrames == 1

MaxProbe == 2400

FifoDepth == 2

\* Cap of motorAngle, which Remote() only ever increments.
MaxAngle == 1

-----------------------------------------------------------------------------
(* Helpers *)

Abs(x) == IF x < 0 THEN -x ELSE x

RECURSIVE Pow2(_)
Pow2(n) == IF n = 0 THEN 1 ELSE 2 * Pow2(n - 1)

\* The bits of a non-negative number below 2^31, as the set of set positions.
BitsOf(n) == { k \in 0 .. 30 : (n \div Pow2(k)) % 2 = 1 }

\* The 16-bit halves of a bit set, as numbers.
Hi16(bits) == LET F[k \in 15 .. 31] ==
                    IF k = 15 THEN 0
                    ELSE F[k - 1] + (IF k \in bits THEN Pow2(k - 16) ELSE 0)
              IN  F[31]

Lo16(bits) == LET F[k \in -1 .. 15] ==
                    IF k = -1 THEN 0
                    ELSE F[k - 1] + (IF k \in bits THEN Pow2(k) ELSE 0)
              IN  F[15]

-----------------------------------------------------------------------------
(* PulseReader *)

\* A plausible slip: the factor 2 (two clock cycles per count) left out.
ToMS_noDouble(i) == (i * (1000000 \div 1000)) \div (smFreq \div 1000)

\* int(i * factor), factor = 2 * 1000000 / smFreq.  smFreq is a multiple of
\* 1000 and i >= 0, so this is floor(i * 2000 / (smFreq / 1000)); the product
\* stays within 32 bits for every 12-bit count.
ToMS(i) == (i * 2 * (1000000 \div 1000)) \div (smFreq \div 1000)

\* for i in code: buf.append(int(i * factor)), onto an empty list
ToMSAll(code) == [i \in 1 .. Len(code) |-> ToMS(code[i])]

\* A plausible slip: the repeat branch taken for up to 2 values.
convertToMS_upTo2(code, cmdBuf, cmdFlag, repFlag) ==
  IF Len(code) <= 2
  THEN [rep |-> ToMSAll(code), repFlag |-> TRUE,
        cmd |-> cmdBuf, cmdFlag |-> cmdFlag]
  ELSE [rep |-> <<>>, repFlag |-> repFlag,
        cmd |-> cmdBuf \o ToMSAll(code), cmdFlag |-> TRUE]

\* A plausible slip: the command branch taken for more than 2 values only.
convertToMS_moreThan2(code, cmdBuf, cmdFlag, repFlag) ==
  IF Len(code) = 2
  THEN [rep |-> ToMSAll(code), repFlag |-> TRUE,
        cmd |-> cmdBuf, cmdFlag |-> cmdFlag]
  ELSE IF Len(code) > 2
  THEN [rep |-> <<>>, repFlag |-> repFlag,
        cmd |-> cmdBuf \o ToMSAll(code), cmdFlag |-> TRUE]
  ELSE [rep |-> <<>>, repFlag |-> repFlag, cmd |-> cmdBuf, cmdFlag |-> cmdFlag]

\* convertToMS(code): the four fields it may write, from their values before.
convertToMS(code, cmdBuf, cmdFlag, repFlag) ==
  IF Len(code) = 2
  THEN [rep |-> ToMSAll(code), repFlag |-> TRUE,
        cmd |-> cmdBuf, cmdFlag |-> cmdFlag]
  ELSE [rep |-> <<>>, repFlag |-> repFlag,
        cmd |-> cmdBuf \o ToMSAll(code), cmdFlag |-> TRUE]

\* A plausible slip: `while self.sm.rx_fifo():` for the `if` of line 94.
RECURSIVE afterGetPulses_whileReady(_)
afterGetPulses_whileReady(p) ==
  IF Len(p.fifo) > 0
  THEN LET pulse == Head(p.fifo)
           c == convertToMS(p.rawPulsesBuf, p.rawCommandTimeBuf,
                            p.newCommandFlag, p.newRepeatFlag)
       IN  afterGetPulses_whileReady(
             IF pulse = TimeoutMarker
             THEN [fifo |-> Tail(p.fifo), rawPulsesBuf |-> <<>>,
                   rawCommandTimeBuf |-> c.cmd, rawRepeatTimeBuf |-> c.rep,
                   newCommandFlag |-> c.cmdFlag, newRepeatFlag |-> c.repFlag]
             ELSE [p EXCEPT !.fifo = Tail(p.fifo),
                            !.rawPulsesBuf = Append(p.rawPulsesBuf, pulseTimeout - pulse)])
  ELSE p

\* getPulses(), from the PulseReader p (its FIFO and its fields) to the
\* PulseReader it leaves: one word is taken when the FIFO holds any.
afterGetPulses(p) ==
  IF Len(p.fifo) > 0
  THEN LET pulse == Head(p.fifo)
           c == convertToMS(p.rawPulsesBuf, p.rawCommandTimeBuf,
                            p.newCommandFlag, p.newRepeatFlag)
       IN  IF pulse = TimeoutMarker
           THEN [fifo |-> Tail(p.fifo), rawPulsesBuf |-> <<>>,
                 rawCommandTimeBuf |-> c.cmd, rawRepeatTimeBuf |-> c.rep,
                 newCommandFlag |-> c.cmdFlag, newRepeatFlag |-> c.repFlag]
           ELSE [p EXCEPT !.fifo = Tail(p.fifo),
                          !.rawPulsesBuf = Append(p.rawPulsesBuf, pulseTimeout - pulse)]
  ELSE p

-----------------------------------------------------------------------------
(* necDecoder *)

\* A plausible slip: the tolerance scaled by the expected value.
match_expected(val, expectedVal) ==
  Abs(val - expectedVal) * 100 < expectedVal * ALLOWED_DEVIATION_PCT

match(val, expectedVal) ==
  Abs(val - expectedVal) * 100 < val * ALLOWED_DEVIATION_PCT

checkZero(p1, p2) == match(p1, DATA_PULSE_WIDTH) /\ match(p2, DATA_PULSE_WIDTH)

\* A plausible slip: the two expected values of checkOne exchanged.
checkOne_swapped(p1, p2) ==
  match(p1, DATA_PULSE_WIDTH * 3) /\ match(p2, DATA_PULSE_WIDTH)

checkOne(p1, p2) == match(p1, DATA_PULSE_WIDTH) /\ match(p2, DATA_PULSE_WIDTH * 3)

\* A plausible slip: the first data pair counted as pair 0.
bitIndex_offByOne(i) == TOP_BIT - (i \div 2)

\* A plausible slip: the first data pair taken as the least significant bit.
bitIndex_lsbFirst(i) == (i \div 2) - 1

\* 31 - (int(i/2) - 1), i the 0-based index of the pair's first value
bitIndex(i) == TOP_BIT - ((i \div 2) - 1)

\* A plausible slip: a pair that is not a valid zero is passed over.
RECURSIVE walkPairs_skipsBadZero(_, _, _)
walkPairs_skipsBadZero(rawPulses, i, data) ==
  IF i >= Len(rawPulses) - 1
  THEN [ret |-> "true", necData |-> data]
  ELSE LET p1 == rawPulses[i + 1]
           p2 == rawPulses[i + 2]
       IN  IF p1 + p2 > DATA_PULSE_WIDTH * 3
           THEN IF checkOne(p1, p2)
                THEN IF bitIndex(i) < 0
                     THEN [ret |-> "ValueError", necData |-> data]
                     ELSE walkPairs_skipsBadZero(rawPulses, i + 2, data \cup {bitIndex(i)})
                ELSE [ret |-> "false", necData |-> data]
           ELSE walkPairs_skipsBadZero(rawPulses, i + 2, data)

\* The loop of decodeCommand from 0-based index i on, data the bits set so far.
\* 1 << n raises ValueError for n < 0.
RECURSIVE walkPairs(_, _, _)
walkPairs(rawPulses, i, data) ==
  IF i >= Len(rawPulses) - 1
  THEN [ret |-> "true", necData |-> data]
  ELSE LET p1 == rawPulses[i + 1]
           p2 == rawPulses[i + 2]
       IN  IF p1 + p2 > DATA_PULSE_WIDTH * 3
           THEN IF checkOne(p1, p2)
                THEN IF bitIndex(i) < 0
                     THEN [ret |-> "ValueError", necData |-> data]
                     ELSE walkPairs(rawPulses, i + 2, data \cup {bitIndex(i)})
                ELSE [ret |-> "false", necData |-> data]
           ELSE IF ~checkZero(p1, p2)
                THEN [ret |-> "false", necData |-> data]
                ELSE walkPairs(rawPulses, i + 2, data)

\* A plausible slip: the start pair rejected when either value is off.
startRejected_either(rawPulses) ==
  ~match(rawPulses[1], START_MARK) \/ ~match(rawPulses[2], START_SPACE)

startRejected(rawPulses) ==
  ~match(rawPulses[1], START_MARK) /\ ~match(rawPulses[2], START_SPACE)

\* A plausible slip: either value matching is enough.
repeatValid_either(rawRepeat) ==
  match(rawRepeat[1], START_MARK) \/ match(rawRepeat[2], REPEAT_SPACE)

repeatValid(rawRepeat) ==
  match(rawRepeat[1], START_MARK) /\ match(rawRepeat[2], REPEAT_SPACE)

\* Plausible slips: the policy read the wrong way round; the policy ignored.
repeatCode_swapped(policy, data) == IF policy THEN AllBits ELSE data

repeatCode_sentinel(policy, data) == AllBits

\* Line 155: the code a valid repeat frame leaves.
repeatCode(policy, data) == IF policy THEN data ELSE AllBits

DecoderState ==
  [rawCommandTimeBuf |-> rawCommandTimeBuf, rawRepeatTimeBuf |-> rawRepeatTimeBuf,
   newCommandFlag |-> newCommandFlag, newRepeatFlag |-> newRepeatFlag,
   necData |-> necData, commandRepeat |-> commandRepeat,
   ret |-> "none", via |-> "none"]

Snapshot == [s |-> DecoderState, cmdUnread |-> cmdUnread, repUnread |-> repUnread]

NoPre ==
  [rawCommandTimeBuf |-> <<>>, rawRepeatTimeBuf |-> <<>>,
   newCommandFlag |-> FALSE, newRepeatFlag |-> FALSE,
   necData |-> {}, commandRepeat |-> FALSE,
   ret |-> "none", via |-> "none"]

NoSnapshot == [s |-> NoPre, cmdUnread |-> FALSE, repUnread |-> FALSE]

\* No getPulses call has just returned.
NoCallback == <<>>

\* The PulseReader as a getPulses call finds it.
CallbackSnapshot ==
  [fifo |-> fifo, rawPulsesBuf |-> rawPulsesBuf,
   rawCommandTimeBuf |-> rawCommandTimeBuf, rawRepeatTimeBuf |-> rawRepeatTimeBuf,
   newCommandFlag |-> newCommandFlag, newRepeatFlag |-> newRepeatFlag]

\* No decode() call is in progress.  A call holds the line of the statement
\* it runs next and its locals; tookCommand and tookRepeat tell that lines 144
\* and 150 have run, callbacks what the timer callback has done since the
\* call began ("none", "some" for calls that finalised nothing, "finalised").
\* At "main" decode() has returned True to the application loop.
Idle == [pc |-> "idle", rawPulses |-> <<>>, rawRepeat |-> <<>>,
         tookCommand |-> FALSE, tookRepeat |-> FALSE, callbacks |-> "none"]

-----------------------------------------------------------------------------
(* The signals on the pin: bursts of tick counts (low time, high time, ...)   *)
(* that the pulse source measures, each ended by its timeout word.            *)

\* Tick counts at 256 kHz, two cycles a count (7.8125 us a count):
\*   1152 -> 9000, 576 -> 4500, 288 -> 2250, 72 -> 562, 215 -> 1679;
\*   60 -> 468 and 89 -> 695 are the shortest and longest counts matching 560,
\*   180 -> 1406 and 268 -> 2093 those matching 1680,
\*   961 -> 7507 the shortest matching 9000, 719 -> 5617 the longest matching 4500;
\*   128 -> 1000 and 300 -> 2343 match none of the data widths.
Tick == [start |-> 1152, space |-> 576, repeat |-> 288, mark |-> 72, one |-> 215,
         markLo |-> 60, markHi |-> 89, oneLo |-> 180, oneHi |-> 268,
         startLo |-> 961, spaceHi |-> 719, noise |-> 128, long |-> 300,
         startOff |-> 960, spaceOff |-> 720]

\* A frame: the start pair, then nPairs data pairs; pair k (0-based) is a one
\* when k is in ones.
FrameTicks(s1, s2, nPairs, ones, mark, zeroSpace, oneSpace) ==
  <<s1, s2>> \o
  [j \in 1 .. 2 * nPairs |->
     IF j % 2 = 1 THEN mark
     ELSE IF ((j \div 2) - 1) \in ones THEN oneSpace ELSE zeroSpace]

\* Data bits 31..16 of the key "0" frame 0x00ff9867, most significant first:
\* 0x00ff, so pairs 8..15 are ones.
Key0Ones16 == 8 .. 15

Key0Frame16 == FrameTicks(Tick.start, Tick.space, 16, Key0Ones16, Tick.mark, Tick.mark, Tick.one)

\* Bursts of the system specification: too short, repeat frames (valid, bad
\* space, bad mark) and one-pair command frames (valid, rejected at the start
\* pair).
ShortBursts ==
  { <<>>,
    <<Tick.start>>,
    <<Tick.start, Tick.repeat>>,
    <<Tick.start, Tick.space>>,
    <<Tick.mark, Tick.repeat>>,
    <<Tick.start, Tick.space, Tick.mark, Tick.one>>,
    <<Tick.mark, Tick.mark, Tick.mark, Tick.mark>> }

\* 16-pair frames: the key "0" prefix, and two mixed words whose marks and
\* spaces lie at the edges of the tolerance.
Frames16 ==
  { Key0Frame16,
    FrameTicks(Tick.start, Tick.space, 16, {0, 2, 5, 7, 8, 10, 13, 15}, Tick.markLo, Tick.markHi, Tick.oneLo),
    FrameTicks(Tick.startLo, Tick.spaceHi, 16, {1, 2, 3, 4, 11, 12, 15}, Tick.markHi, Tick.markLo, Tick.oneHi) }

-----------------------------------------------------------------------------
(* ULN2003 stepper driver (src/python/Mosiwi_lib_examples/                   *)
(* Mosiwi_stepper_motor.py).  steps_sum is an int after move() and a float   *)
(* after degree(), which passes steps_pr_rotation/360*degree; it is held     *)
(* here exactly, as a number of 360ths of a step.                            *)

HALF_STEP_TABLE ==
  << <<0, 0, 0, 1>>,
     <<0, 0, 1, 1>>,
     <<0, 0, 1, 0>>,
     <<0, 1, 1, 0>>,
     <<0, 1, 0, 0>>,
     <<1, 1, 0, 0>>,
     <<1, 0, 0, 0>>,
     <<1, 0, 0, 1>> >>

FULL_STEP_TABLE ==
  << <<1, 0, 1, 0>>,
     <<0, 1, 1, 0>>,
     <<0, 1, 0, 1>>,
     <<1, 0, 0, 1>> >>

FullCircle == 360

DefaultStepsPrRotation == 4096

\* n whole steps, in 360ths of a step.
Steps(n) == n * FullCircle

\* The object after __init__(pins, half_step): the class attributes
\* steps_sum = 1, direction = 1 and index = 0.  pins holds the levels
\* written to the four pins: none yet, since Pin(p, Pin.OUT, 0) of line 56
\* passes 0 as the pull and writes no level.  Rows of the step table are
\* numbered from 0 in the program and from 1 here.
\* at97 holds the direction a move() call that has run line 96 has still to
\* store; before holds steps_sum, direction and index as the timer callback
\* that has just returned found them.
ULN2003(half_step) ==
  [ pins |-> <<>>,
    step_table |-> IF half_step THEN HALF_STEP_TABLE ELSE FULL_STEP_TABLE,
    steps_pr_rotation |-> DefaultStepsPrRotation,
    steps_sum |-> Steps(1),
    direction |-> 1,
    index |-> 0,
    at97 |-> <<>>,
    before |-> <<>> ]

nextIndex_noBackwardWrap(index, direction, len) ==
  LET i == IF direction = 1 THEN index + 1 ELSE index - 1
  IN  IF direction = 1 /\ i > len - 1 THEN 0 ELSE i

\* Lines 72-74 of _step: the index after one step in the direction.
nextIndex(index, direction, len) ==
  LET i == IF direction = 1 THEN index + 1 ELSE index - 1
      j == IF direction = -1 /\ i < 0 THEN len - 1 ELSE i
  IN  IF direction = 1 /\ j > len - 1 THEN 0 ELSE j

\* table[i]: a negative subscript counts rows from the end.
Row(table, i) == table[(IF i < 0 THEN i + Len(table) ELSE i) + 1]

\* _step(t): one firing of the 800 Hz timer.
afterStep(o) ==
  IF o.steps_sum > 0
  THEN LET i == nextIndex(o.index, o.direction, Len(o.step_table))
       IN  [o EXCEPT !.index = i,
                     !.pins = Row(o.step_table, i),
                     !.steps_sum = o.steps_sum - Steps(1)]
  ELSE [o EXCEPT !.pins = <<0, 0, 0, 0>>]

-----------------------------------------------------------------------------
(* State machine *)

InitDecoder ==
  /\ srcQueue = <<>>
  /\ lastSignal = <<>>
  /\ nBursts = 0
  /\ fifo = <<>>
  /\ rawPulsesBuf = <<>>
  /\ rawRepeatTimeBuf = <<>>
  /\ rawCommandTimeBuf = <<>>
  /\ newRepeatFlag = FALSE
  /\ newCommandFlag = FALSE
  /\ necData = {}
  /\ commandRepeat \in BOOLEAN
  /\ ret = "none"
  /\ via = "none"
  /\ pre = NoSnapshot
  /\ lastCode = <<>>
  /\ cmdUnread = FALSE
  /\ repUnread = FALSE
  /\ cb = NoCallback
  /\ call = Idle
  /\ owed = <<>>
  /\ mode = 0
  /\ modeFlag = 0
  /\ motorAngle = 0

Init ==
  /\ InitDecoder
  /\ probe = <<>>
  /\ stepper = ULN2003(TRUE)

\* The positions of the loop body of main.py: after decode() has returned
\* True (main for line 146, main152, main154, main156), in Remote() (79, 81, 84), in move() (97), at
\* lines 161, 163 and 166, in Auto() (129).
BodyPositions ==
  {"main", "main152", "main154", "main156", "79", "81", "84", "97", "161", "163", "166", "129"}

\* No decode() call is in progress: the loop is at its top, in its body or
\* ended by an exception.
BetweenCalls == call.pc \in {"idle", "raised"} \cup BodyPositions

\* A step of the pulse source or of the timer callback.  Between calls, what
\* the last decode() call returned is no longer observed; during a call, the
\* call goes on from where it is, and kind is what a callback did.
Meanwhile(kind) ==
  IF BetweenCalls
  THEN /\ ret' = "none"
       /\ via' = "none"
       /\ pre' = NoSnapshot
       /\ call' = [Idle EXCEPT !.pc = call.pc]
  ELSE /\ UNCHANGED <<ret, via, pre>>
       /\ call' = [call EXCEPT !.callbacks =
                     IF kind = "none" \/ @ = "finalised" THEN @ ELSE kind]

\* What the pulse source pushes for a measured count: the counter counts down
\* from pulseTimeout.
FifoWord(ticks) == pulseTimeout - ticks

\* A signal arrives on the pin: the pulse source will push its counts, then
\* the timeout word.
StartBurst(bursts, max) ==
  /\ srcQueue = <<>>
  /\ nBursts < max
  /\ \E b \in bursts :
       /\ srcQueue' = [i \in 1 .. Len(b) |-> FifoWord(b[i])] \o <<TimeoutMarker>>
       /\ lastSignal' = b
  /\ nBursts' = nBursts + 1
  /\ Meanwhile("none")
  /\ cb' = NoCallback
  /\ UNCHANGED <<fifo, rawPulsesBuf, rawRepeatTimeBuf, rawCommandTimeBuf,
                 newRepeatFlag, newCommandFlag, necData, commandRepeat, lastCode,
                 cmdUnread, repUnread, probe, owed, stepper, Application>>

\* push(): blocks while the RX FIFO is full.
Push ==
  /\ srcQueue # <<>>
  /\ Len(fifo) < FifoDepth
  /\ fifo' = Append(fifo, Head(srcQueue))
  /\ srcQueue' = Tail(srcQueue)
  /\ Meanwhile("none")
  /\ cb' = NoCallback
  /\ UNCHANGED <<lastSignal, nBursts, rawPulsesBuf, rawRepeatTimeBuf, rawCommandTimeBuf,
                 newRepeatFlag, newCommandFlag, necData, commandRepeat, lastCode,
                 cmdUnread, repUnread, probe, owed, stepper, Application>>

\* The periodic timer callback.
getPulses ==
  LET p == afterGetPulses(CallbackSnapshot)
      finalises == Len(fifo) > 0 /\ Head(fifo) = TimeoutMarker
      command == finalises /\ Len(rawPulsesBuf) # 2
  IN  /\ fifo' = p.fifo
      /\ rawPulsesBuf' = p.rawPulsesBuf
      /\ rawCommandTimeBuf' = p.rawCommandTimeBuf
      /\ rawRepeatTimeBuf' = p.rawRepeatTimeBuf
      /\ newCommandFlag' = p.newCommandFlag
      /\ newRepeatFlag' = p.newRepeatFlag
      /\ cmdUnread' = (cmdUnread \/ command)
      /\ repUnread' = (repUnread \/ (finalises /\ ~command))
      /\ owed' = IF command
                 THEN <<[burst |-> ToMSAll(rawPulsesBuf),
                         alone |-> rawCommandTimeBuf = <<>>]>>
                 ELSE owed
      /\ Meanwhile(IF finalises THEN "finalised" ELSE "some")
      /\ cb' = CallbackSnapshot
      /\ UNCHANGED <<srcQueue, lastSignal, nBursts, necData, commandRepeat, lastCode,
                     probe, stepper, Application>>

\* The burst owed, once decodeCommand is called with rawPulses.
owedAfter(rawPulses) ==
  IF owed # <<>> /\ owed[1].burst = rawPulses THEN <<>> ELSE owed

-----------------------------------------------------------------------------
(* decode() statement by statement.  The timer callback is a scheduled       *)
(* callback: it runs to completion between two statements of the main loop,  *)
(* so getPulses stays one step and may be taken at every position of a       *)
(* decode() call.  The position is the line of the statement to run next.    *)

\* What decode() never writes.
Acquisition == <<srcQueue, lastSignal, nBursts, fifo, rawPulsesBuf, commandRepeat, probe>>

\* decode() moves to line l.
Goto(l) == call' = [call EXCEPT !.pc = l]

\* decode() returns r, decided on path v: True takes the application loop
\* into the body of its `if ir.decode():`, False to the `if mode == 1:` that
\* follows it, an exception ends the loop.
Return(r, v) ==
  /\ call' = [call EXCEPT !.pc = IF r = "true" THEN "main"
                                 ELSE IF r = "false" THEN "161" ELSE "raised"]
  /\ ret' = r
  /\ via' = v

\* line 143: if self.pulseReader.newCommandFlag:
decode_143 ==
  /\ call.pc = "idle"
  /\ call' = [Idle EXCEPT !.pc = IF newCommandFlag THEN "144" ELSE "149"]
  /\ pre' = Snapshot
  /\ ret' = "none"
  /\ via' = "none"
  /\ cb' = NoCallback
  /\ UNCHANGED <<Acquisition, rawCommandTimeBuf, rawRepeatTimeBuf, newCommandFlag,
                 newRepeatFlag, necData, lastCode, cmdUnread, repUnread, owed, stepper, Application>>

\* line 144: rawPulses = self.pulseReader.rawCommandTimeBuf.copy()
decode_144 ==
  /\ call.pc = "144"
  /\ call' = [call EXCEPT !.pc = "145", !.rawPulses = rawCommandTimeBuf,
                          !.tookCommand = TRUE]
  /\ cmdUnread' = FALSE
  /\ cb' = NoCallback
  /\ UNCHANGED <<Acquisition, rawCommandTimeBuf, rawRepeatTimeBuf, newCommandFlag,
                 newRepeatFlag, necData, lastCode, repUnread, owed, ret, via, pre, stepper, Application>>

\* line 145: self.pulseReader.rawCommandTimeBuf = []
decode_145 ==
  /\ call.pc = "145"
  /\ rawCommandTimeBuf' = <<>>
  /\ Goto("121")
  /\ cb' = NoCallback
  /\ UNCHANGED <<Acquisition, rawRepeatTimeBuf, newCommandFlag, newRepeatFlag,
                 necData, lastCode, cmdUnread, repUnread, owed, ret, via, pre, stepper, Application>>

\* A plausible slip: necData cleared before the length check.
decode_121_resetFirst ==
  /\ call.pc = "121"
  /\ Goto(IF Len(call.rawPulses) > 1 THEN "122" ELSE "149")
  /\ necData' = {}
  /\ owed' = owedAfter(call.rawPulses)
  /\ cb' = NoCallback
  /\ UNCHANGED <<Acquisition, rawCommandTimeBuf, rawRepeatTimeBuf, newCommandFlag,
                 newRepeatFlag, lastCode, cmdUnread, repUnread, ret, via, pre, stepper, Application>>

\* lines 146, 121: decodeCommand(rawPulses) is called; if len(rawPulses) > 1:
decode_121 ==
  /\ call.pc = "121"
  /\ Goto(IF Len(call.rawPulses) > 1 THEN "122" ELSE "149")
  /\ owed' = owedAfter(call.rawPulses)
  /\ cb' = NoCallback
  /\ UNCHANGED <<Acquisition, rawCommandTimeBuf, rawRepeatTimeBuf, newCommandFlag,
                 newRepeatFlag, necData, lastCode, cmdUnread, repUnread, ret, via, pre, stepper, Application>>

\* line 122: self.necData = 0
decode_122 ==
  /\ call.pc = "122"
  /\ necData' = {}
  /\ Goto("123")
  /\ cb' = NoCallback
  /\ UNCHANGED <<Acquisition, rawCommandTimeBuf, rawRepeatTimeBuf, newCommandFlag,
                 newRepeatFlag, lastCode, cmdUnread, repUnread, owed, ret, via, pre, stepper, Application>>

\* line 123: self.pulseReader.newCommandFlag = False
decode_123 ==
  /\ call.pc = "123"
  /\ newCommandFlag' = FALSE
  /\ Goto("124")
  /\ cb' = NoCallback
  /\ UNCHANGED <<Acquisition, rawCommandTimeBuf, rawRepeatTimeBuf, newRepeatFlag,
                 necData, lastCode, cmdUnread, repUnread, owed, ret, via, pre, stepper, Application>>

\* lines 124-139 and 146: the start pair and the walk over the data pairs, on
\* the local copy and necData, which the callback never touches; then on to
\* line 147, or to line 149, or the shift at line 131 raises.
decode_124 ==
  /\ call.pc = "124"
  /\ LET w == IF startRejected(call.rawPulses)
              THEN [ret |-> "false", necData |-> {}]
              ELSE walkPairs(call.rawPulses, 2, {})
     IN  /\ necData' = w.necData
         /\ IF w.ret = "false"
            THEN Goto("149") /\ UNCHANGED <<ret, via>>
            ELSE IF w.ret = "true"
            THEN Goto("147") /\ UNCHANGED <<ret, via>>
            ELSE Return(w.ret, "command")
  /\ cb' = NoCallback
  /\ UNCHANGED <<Acquisition, rawCommandTimeBuf, rawRepeatTimeBuf, newCommandFlag,
                 newRepeatFlag, lastCode, cmdUnread, repUnread, owed, pre, stepper, Application>>

\* lines 147-148: self.err = 0; return True
decode_147 ==
  /\ call.pc = "147"
  /\ Return("true", "command")
  /\ lastCode' = <<necData>>
  /\ cb' = NoCallback
  /\ UNCHANGED <<Acquisition, rawCommandTimeBuf, rawRepeatTimeBuf, newCommandFlag,
                 newRepeatFlag, necData, cmdUnread, repUnread, owed, pre, stepper, Application>>

\* line 149: if self.pulseReader.newRepeatFlag:
decode_149 ==
  /\ call.pc = "149"
  /\ Goto(IF newRepeatFlag THEN "150" ELSE "157")
  /\ cb' = NoCallback
  /\ UNCHANGED <<Acquisition, rawCommandTimeBuf, rawRepeatTimeBuf, newCommandFlag,
                 newRepeatFlag, necData, lastCode, cmdUnread, repUnread, owed,
                 ret, via, pre, stepper, Application>>

\* line 150: rawRepeat = self.pulseReader.rawRepeatTimeBuf.copy()
decode_150 ==
  /\ call.pc = "150"
  /\ call' = [call EXCEPT !.pc = "151", !.rawRepeat = rawRepeatTimeBuf,
                          !.tookRepeat = TRUE]
  /\ repUnread' = FALSE
  /\ cb' = NoCallback
  /\ UNCHANGED <<Acquisition, rawCommandTimeBuf, rawRepeatTimeBuf, newCommandFlag,
                 newRepeatFlag, necData, lastCode, cmdUnread, owed, ret, via, pre, stepper, Application>>

\* A plausible slip: the repeat buffer not cleared after it is copied.
decode_151_keepsBuffer ==
  /\ call.pc = "151"
  /\ Goto("152")
  /\ cb' = NoCallback
  /\ UNCHANGED <<Acquisition, rawCommandTimeBuf, rawRepeatTimeBuf, newCommandFlag,
                 newRepeatFlag, necData, lastCode, cmdUnread, repUnread, owed, ret,
                 via, pre, stepper, Application>>

\* line 151: self.pulseReader.rawRepeatTimeBuf = []
decode_151 ==
  /\ call.pc = "151"
  /\ rawRepeatTimeBuf' = <<>>
  /\ Goto("152")
  /\ cb' = NoCallback
  /\ UNCHANGED <<Acquisition, rawCommandTimeBuf, newCommandFlag, newRepeatFlag,
                 necData, lastCode, cmdUnread, repUnread, owed, ret, via, pre, stepper, Application>>

\* line 152: if len(rawRepeat):
decode_152 ==
  /\ call.pc = "152"
  /\ Goto(IF Len(call.rawRepeat) > 0 THEN "153" ELSE "157")
  /\ cb' = NoCallback
  /\ UNCHANGED <<Acquisition, rawCommandTimeBuf, rawRepeatTimeBuf, newCommandFlag,
                 newRepeatFlag, necData, lastCode, cmdUnread, repUnread, owed,
                 ret, via, pre, stepper, Application>>

\* A plausible slip: line 153 left out, newCommandFlag kept.
decode_153_keepsCommandFlag ==
  /\ call.pc = "153"
  /\ Goto("154")
  /\ cb' = NoCallback
  /\ UNCHANGED <<Acquisition, rawCommandTimeBuf, rawRepeatTimeBuf, newCommandFlag,
                 newRepeatFlag, necData, lastCode, cmdUnread, repUnread, owed, ret,
                 via, pre, stepper, Application>>

\* line 153: self.pulseReader.newCommandFlag = False
decode_153 ==
  /\ call.pc = "153"
  /\ newCommandFlag' = FALSE
  /\ Goto("154")
  /\ cb' = NoCallback
  /\ UNCHANGED <<Acquisition, rawCommandTimeBuf, rawRepeatTimeBuf, newRepeatFlag,
                 necData, lastCode, cmdUnread, repUnread, owed, ret, via, pre, stepper, Application>>

\* line 154: if self.match(rawRepeat[0], 9000) and self.match(rawRepeat[1], 2250):
decode_154 ==
  /\ call.pc = "154"
  /\ Goto(IF repeatValid(call.rawRepeat) THEN "155" ELSE "157")
  /\ cb' = NoCallback
  /\ UNCHANGED <<Acquisition, rawCommandTimeBuf, rawRepeatTimeBuf, newCommandFlag,
                 newRepeatFlag, necData, lastCode, cmdUnread, repUnread, owed,
                 ret, via, pre, stepper, Application>>

\* line 155: if not self.commandRepeat: self.necData = 0xffffffff
decode_155 ==
  /\ call.pc = "155"
  /\ necData' = repeatCode(commandRepeat, necData)
  /\ Goto("156")
  /\ cb' = NoCallback
  /\ UNCHANGED <<Acquisition, rawCommandTimeBuf, rawRepeatTimeBuf, newCommandFlag,
                 newRepeatFlag, lastCode, cmdUnread, repUnread, owed, ret, via, pre,
                 stepper, Application>>

\* line 156: return True
decode_156 ==
  /\ call.pc = "156"
  /\ Return("true", "repeat")
  /\ cb' = NoCallback
  /\ UNCHANGED <<Acquisition, rawCommandTimeBuf, rawRepeatTimeBuf, newCommandFlag,
                 newRepeatFlag, necData, lastCode, cmdUnread, repUnread, owed, pre,
                 stepper, Application>>

\* line 157: return False; the call has consumed a repeat burst when the one
\* it copied at line 150 was not empty.
decode_157 ==
  /\ call.pc = "157"
  /\ Return("false", IF call.tookRepeat /\ call.rawRepeat # <<>>
                     THEN "repeat" ELSE "none")
  /\ cb' = NoCallback
  /\ UNCHANGED <<Acquisition, rawCommandTimeBuf, rawRepeatTimeBuf, newCommandFlag,
                 newRepeatFlag, necData, lastCode, cmdUnread, repUnread, owed, pre,
                 stepper, Application>>

\* The key codes the loop body tests for, as bit sets.
Key0Code == BitsOf(key_0)

KeyOkCode == BitsOf(key_ok)

KeyLeftCode == BitsOf(key_left)

KeyRightCode == BitsOf(key_right)

\* The key codes the application loop debounces (main.py, lines 147-149).
DebouncedKeys ==
  { BitsOf(key_ok), BitsOf(key_0), BitsOf(key_1), BitsOf(key_2), BitsOf(key_3),
    BitsOf(key_5), BitsOf(key_8) }

\* Lines 146-150 of main.py, after decode() has returned True: necData is
\* zeroed when it is one of the debounced keys and less than 200 ms have
\* passed since the last key was handled.
main_146 ==
  /\ call.pc = "main"
  /\ \E soon \in BOOLEAN :
       necData' = IF soon /\ necData \in DebouncedKeys THEN {} ELSE necData
  /\ call' = [Idle EXCEPT !.pc = "main152"]
  /\ ret' = "none"
  /\ via' = "none"
  /\ pre' = NoSnapshot
  /\ cb' = NoCallback
  /\ UNCHANGED <<Acquisition, rawCommandTimeBuf, rawRepeatTimeBuf, newCommandFlag,
                 newRepeatFlag, lastCode, cmdUnread, repUnread, owed, stepper,
                 Application>>

\* What the loop body leaves alone once necData and mode are settled.
Handled == <<Acquisition, rawCommandTimeBuf, rawRepeatTimeBuf, newCommandFlag,
             newRepeatFlag, necData, lastCode, cmdUnread, repUnread, owed, ret,
             via, pre, cb, mode>>

\* Lines 152-153: key_ok switches the mode.
main_152 ==
  /\ call.pc = "main152"
  /\ mode' = IF necData = KeyOkCode THEN 1 - mode ELSE mode
  /\ Goto("main154")
  /\ UNCHANGED <<Acquisition, rawCommandTimeBuf, rawRepeatTimeBuf, newCommandFlag,
                 newRepeatFlag, necData, lastCode, cmdUnread, repUnread, owed, ret,
                 via, pre, cb, stepper, modeFlag, motorAngle>>

\* Lines 154-155: in mode 0 the banner is shown when the flag is set (line
\* 156) and Remote() is called (line 158); in mode 1 lines 159 and 161
\* follow.
main_154 ==
  /\ call.pc = "main154"
  /\ Goto(IF mode = 0 THEN (IF modeFlag = 1 THEN "main156" ELSE "79") ELSE "161")
  /\ UNCHANGED <<Handled, stepper, modeFlag, motorAngle>>

\* Lines 156-158: scroll_text has shown the banner, the flag is cleared and
\* Remote() is called.
main_156 ==
  /\ call.pc = "main156"
  /\ modeFlag' = 0
  /\ Goto("79")
  /\ UNCHANGED <<Handled, stepper, motorAngle>>

\* Remote(), lines 79-80 and 82-83 of main.py: for key_left and key_right,
\* motorAngle grows by one when the stepper has no step left to take.  The
\* other keys (lines 85-114) drive the servo, the LED, the buzzer, the laser
\* and the display, and the loop goes on to lines 159 and 161.
Remote_79 ==
  /\ call.pc = "79"
  /\ IF necData \in {KeyLeftCode, KeyRightCode}
     THEN /\ stepper.steps_sum <= 0 => motorAngle < MaxAngle
          /\ motorAngle' = IF stepper.steps_sum <= 0 THEN motorAngle + 1 ELSE motorAngle
          /\ Goto(IF necData = KeyLeftCode THEN "81" ELSE "84")
     ELSE /\ UNCHANGED motorAngle
          /\ Goto("161")
  /\ UNCHANGED <<Handled, stepper, modeFlag>>

\* Remote(), line 81 or 84: stepper.degree(motorAngle, -1) for key_left,
\* stepper.degree(motorAngle, 1) for key_right, up to line 96 of move().
\* Line 97 is move_97.
Remote_81 ==
  /\ call.pc \in {"81", "84"}
  /\ stepper' = [stepper EXCEPT !.steps_sum = stepper.steps_pr_rotation * motorAngle,
                                !.at97 = <<IF call.pc = "81" THEN -1 ELSE 1>>,
                                !.before = <<>>]
  /\ Goto("97")
  /\ UNCHANGED <<Handled, Application>>

\* Lines 161-162 of main.py: in mode 1 the banner is shown when the flag is
\* clear (line 163) and Auto() is called (line 166); in mode 0 the loop is
\* back at its top.
main_161 ==
  /\ call.pc = "161"
  /\ call' = [Idle EXCEPT !.pc = IF mode = 1
                                  THEN (IF modeFlag = 0 THEN "163" ELSE "166")
                                  ELSE "idle"]
  /\ ret' = "none"
  /\ via' = "none"
  /\ pre' = NoSnapshot
  /\ cb' = NoCallback
  /\ UNCHANGED <<Acquisition, rawCommandTimeBuf, rawRepeatTimeBuf, newCommandFlag,
                 newRepeatFlag, necData, lastCode, cmdUnread, repUnread, owed, stepper,
                 Application>>

\* Lines 163-165: scroll_text has shown the banner and the flag is set.
main_163 ==
  /\ call.pc = "163"
  /\ modeFlag' = 1
  /\ Goto("166")
  /\ UNCHANGED <<Handled, stepper, motorAngle>>

\* Auto(), lines 119-127: the battery is read and, when it is low, the
\* warning is shown and the buzzer sounds for five seconds.
Auto_119 ==
  /\ call.pc = "166"
  /\ Goto("129")
  /\ UNCHANGED <<Handled, stepper, modeFlag, motorAngle>>

\* What the light sensor reports (Auto(), line 129): straight ahead, one
\* degree to either side, a full turn, or a value above 360 when it finds no
\* direction.
Readings == {0, 1, 359, 360, 361}

\* The readings that ask the stepper for no step.
StillReadings == {0, 360, 361}

\* Auto(), lines 129-135: the stepper is turned towards the light, by
\* degree(degree, 1) below 180 and degree(360 - degree, -1) from 180 to 360,
\* up to line 96 of move(); above 360 only the servos move.  Line 97 is
\* move_97; without a call of move() lines 139-140 follow and the loop is
\* back at its top.
Auto_129(readings) ==
  /\ call.pc = "129"
  /\ \E reading \in readings :
       IF reading > 360
       THEN /\ UNCHANGED stepper
            /\ Goto("idle")
       ELSE /\ stepper' = [stepper EXCEPT
                 !.steps_sum = stepper.steps_pr_rotation *
                                 (IF reading < 180 THEN reading ELSE 360 - reading),
                 !.at97 = <<IF reading < 180 THEN 1 ELSE -1>>,
                 !.before = <<>>]
            /\ Goto("97")
  /\ UNCHANGED <<Handled, Application>>

\* What the stepper's steps leave alone.
NecIdle == UNCHANGED <<srcQueue, lastSignal, nBursts, fifo, rawPulsesBuf, rawRepeatTimeBuf,
                       rawCommandTimeBuf, newRepeatFlag, newCommandFlag, necData,
                       commandRepeat, ret, via, pre, lastCode, cmdUnread, repUnread,
                       probe, cb, owed, Application>>

\* The stepper's timer callback.
_step ==
  /\ stepper' = [afterStep(stepper) EXCEPT
                   !.before = <<[steps_sum |-> stepper.steps_sum,
                                 direction |-> stepper.direction,
                                 index |-> stepper.index]>>]
  /\ NecIdle
  /\ UNCHANGED call

\* Line 97 of move(): the direction is stored and the call returns, to
\* Remote() in mode 0, where lines 159 and 161 follow, and to Auto() in mode
\* 1, where the servo and the LED are set and the loop is back at its top.
move_97 ==
  /\ call.pc = "97"
  /\ stepper' = [stepper EXCEPT !.direction = stepper.at97[1],
                                !.at97 = <<>>,
                                !.before = <<>>]
  /\ Goto(IF mode = 0 THEN "161" ELSE "idle")
  /\ NecIdle

\* The body of the loop of main.py (lines 146-166), one statement at a time,
\* with the light sensor reporting one of readings.
main_body(readings) ==
  CASE call.pc = "main" -> main_146
    [] call.pc = "main152" -> main_152
    [] call.pc = "main154" -> main_154
    [] call.pc = "main156" -> main_156
    [] call.pc = "79" -> Remote_79
    [] call.pc \in {"81", "84"} -> Remote_81
    [] call.pc = "97" -> move_97
    [] call.pc = "161" -> main_161
    [] call.pc = "163" -> main_163
    [] call.pc = "166" -> Auto_119
    [] call.pc = "129" -> Auto_129(readings)
    [] OTHER -> FALSE

\* A valid repeat frame.
RepeatBursts == { <<Tick.start, Tick.repeat>> }

Next ==
  \/ StartBurst(ShortBursts, MaxSignals)
  \/ Push
  \/ getPulses
  \/ decode_143
  \/ decode_144
  \/ decode_145
  \/ decode_121
  \/ decode_122
  \/ decode_123
  \/ decode_124
  \/ decode_147
  \/ decode_149
  \/ decode_150
  \/ decode_151
  \/ decode_152
  \/ decode_153
  \/ decode_154
  \/ decode_155
  \/ decode_156
  \/ decode_157
  \/ main_body(Readings)
  \/ _step

Spec == Init /\ [][Next]_vars

\* Bursts for the repeat path: a command of one value, repeat frames (valid,
\* bad space, bad mark) and a valid one-pair command.
RepeatPathBursts ==
  { <<Tick.start>>,
    <<Tick.start, Tick.repeat>>,
    <<Tick.start, Tick.space>>,
    <<Tick.mark, Tick.repeat>>,
    <<Tick.start, Tick.space, Tick.mark, Tick.one>> }

NextRepeat ==
  \/ StartBurst(RepeatPathBursts, MaxSignals)
  \/ Push
  \/ getPulses
  \/ decode_143
  \/ decode_144
  \/ decode_145
  \/ decode_121
  \/ decode_122
  \/ decode_123
  \/ decode_124
  \/ decode_147
  \/ decode_149
  \/ decode_150
  \/ decode_151
  \/ decode_152
  \/ decode_153
  \/ decode_154
  \/ decode_155
  \/ decode_156
  \/ decode_157
  \/ main_body(Readings)
  \/ _step

SpecRepeat == Init /\ [][NextRepeat]_vars

\* The signals of the specification below: the frames of Frames16 and the repeat
\* frame.
FrameSignals == Frames16 \cup RepeatBursts

NextFrame ==
  \/ StartBurst(FrameSignals, MaxFrames)
  \/ Push
  \/ getPulses
  \/ decode_143
  \/ decode_144
  \/ decode_145
  \/ decode_121
  \/ decode_122
  \/ decode_123
  \/ decode_124
  \/ decode_147
  \/ decode_149
  \/ decode_150
  \/ decode_151
  \/ decode_152
  \/ decode_153
  \/ decode_154
  \/ decode_155
  \/ decode_156
  \/ decode_157
  \/ main_body(Readings)
  \/ _step

SpecFrame == Init /\ [][NextFrame]_vars

-----------------------------------------------------------------------------
(* match as a function of its arguments: every observed value up to MaxProbe *)
(* against the expected values the decoder uses.                             *)

ExpectedVals == {DATA_PULSE_WIDTH, DATA_PULSE_WIDTH * 3, REPEAT_SPACE}

InitMatch ==
  /\ InitDecoder
  /\ commandRepeat = FALSE
  /\ probe \in [val : 0 .. MaxProbe, expectedVal : ExpectedVals, res : {"none"}]
  /\ stepper = ULN2003(TRUE)

ProbeMatch ==
  /\ probe.res = "none"
  /\ probe' = [probe EXCEPT !.res = IF match(probe.val, probe.expectedVal)
                                    THEN "true" ELSE "false"]
  /\ UNCHANGED <<srcQueue, lastSignal, nBursts, fifo, rawPulsesBuf, rawRepeatTimeBuf,
                 rawCommandTimeBuf, newRepeatFlag, newCommandFlag, necData,
                 commandRepeat, ret, via, pre, lastCode, cmdUnread, repUnread,
                 cb, call, owed, stepper, Application>>

NextMatch == ProbeMatch

SpecMatch == InitMatch /\ [][NextMatch]_vars

-----------------------------------------------------------------------------
(* Command bursts whose start pair is good, off in one value or off in both. *)

\* First values: 9000 us, the lowest that matches 9000 (7507 us), the highest
\* below it that does not (7500 us).
StartMarks == {Tick.start, Tick.startLo, Tick.startOff}

\* Second values: 4500 us, the highest that matches 4500 (5617 us), the lowest
\* above it that does not (5625 us).
StartSpaces == {Tick.space, Tick.spaceHi, Tick.spaceOff}

\* What follows the start pair: a one.
DataTails == { <<Tick.mark, Tick.one>> }

StartBursts == { <<s1, s2>> \o d : s1 \in StartMarks, s2 \in StartSpaces, d \in DataTails }

\* The signals of the specification below: the frames of StartBursts and the repeat
\* frame.
StartSignals == StartBursts \cup RepeatBursts

NextStart ==
  \/ StartBurst(StartSignals, MaxFrames)
  \/ Push
  \/ getPulses
  \/ decode_143
  \/ decode_144
  \/ decode_145
  \/ decode_121
  \/ decode_122
  \/ decode_123
  \/ decode_124
  \/ decode_147
  \/ decode_149
  \/ decode_150
  \/ decode_151
  \/ decode_152
  \/ decode_153
  \/ decode_154
  \/ decode_155
  \/ decode_156
  \/ decode_157
  \/ main_body(Readings)
  \/ _step

SpecStart == Init /\ [][NextStart]_vars

\* Bursts for the interleaved decoder: a command of no value, a command of
\* one value, a valid repeat, a valid one-pair command.
RaceBursts ==
  { <<>>,
    <<Tick.start>>,
    <<Tick.start, Tick.repeat>>,
    <<Tick.start, Tick.space, Tick.mark, Tick.one>> }

NextInterleaved ==
  \/ StartBurst(RaceBursts, MaxSignals)
  \/ Push
  \/ getPulses
  \/ decode_143
  \/ decode_144
  \/ decode_145
  \/ decode_121
  \/ decode_122
  \/ decode_123
  \/ decode_124
  \/ decode_147
  \/ decode_149
  \/ decode_150
  \/ decode_151
  \/ decode_152
  \/ decode_153
  \/ decode_154
  \/ decode_155
  \/ decode_156
  \/ decode_157
  \/ main_body(Readings)
  \/ _step

SpecInterleaved == Init /\ [][NextInterleaved]_vars

\* Bursts for the history of a key press: a valid one-pair command, a
\* command rejected at its start pair, a valid repeat.
HistoryBursts ==
  { <<Tick.start, Tick.space, Tick.mark, Tick.one>>,
    <<Tick.mark, Tick.mark, Tick.mark, Tick.mark>>,
    <<Tick.start, Tick.repeat>> }

NextHistory ==
  \/ StartBurst(HistoryBursts, MaxBursts)
  \/ Push
  \/ getPulses
  \/ decode_143
  \/ decode_144
  \/ decode_145
  \/ decode_121
  \/ decode_122
  \/ decode_123
  \/ decode_124
  \/ decode_147
  \/ decode_149
  \/ decode_150
  \/ decode_151
  \/ decode_152
  \/ decode_153
  \/ decode_154
  \/ decode_155
  \/ decode_156
  \/ decode_157
  \/ main_body(Readings)
  \/ _step

SpecHistory == Init /\ [][NextHistory]_vars

-----------------------------------------------------------------------------
(* Command bursts of more than 32 data pairs, as a remote control with a     *)
(* longer word in NEC timing sends them.                                     *)

\* 33 data pairs: all zeros; a one in the 33rd pair; a one in the first pair
\* and in the 33rd; the 33rd pair neither a zero nor a one.
LongFrames ==
  { FrameTicks(Tick.start, Tick.space, 33, {}, Tick.mark, Tick.mark, Tick.one),
    FrameTicks(Tick.start, Tick.space, 33, {32}, Tick.mark, Tick.mark, Tick.one),
    FrameTicks(Tick.start, Tick.space, 33, {0, 32}, Tick.mark, Tick.mark, Tick.one),
    FrameTicks(Tick.start, Tick.space, 33, {32}, Tick.mark, Tick.mark, Tick.long) }

\* The signals of the specification below: the frames of LongFrames and the repeat
\* frame.
LongSignals == LongFrames \cup RepeatBursts

NextLong ==
  \/ StartBurst(LongSignals, MaxFrames)
  \/ Push
  \/ getPulses
  \/ decode_143
  \/ decode_144
  \/ decode_145
  \/ decode_121
  \/ decode_122
  \/ decode_123
  \/ decode_124
  \/ decode_147
  \/ decode_149
  \/ decode_150
  \/ decode_151
  \/ decode_152
  \/ decode_153
  \/ decode_154
  \/ decode_155
  \/ decode_156
  \/ decode_157
  \/ main_body(Readings)
  \/ _step

SpecLong == Init /\ [][NextLong]_vars

-----------------------------------------------------------------------------
(* Full-length frames: 32 data pairs sent most significant bit first, as the *)
(* remote control of the kit sends the key codes of main.py.                 *)

\* The data pairs (0-based) that are ones in the frame of a 32-bit code below
\* 2^31: pair k carries bit 31 - k.
OnesOf(code) == { k \in 0 .. 31 : (31 - k) \in BitsOf(code) }

KeyFrame(code) ==
  FrameTicks(Tick.start, Tick.space, 32, OnesOf(code), Tick.mark, Tick.mark, Tick.one)

\* The frame f with the space of data pair k replaced by the count space.
WithSpace(f, k, space) == [f EXCEPT ![4 + 2 * k] = space]

Key0Frame == KeyFrame(key_0)

KeyOkFrame == KeyFrame(key_ok)

\* The frames of key "0" and key "OK".
KeyFrames == { Key0Frame, KeyOkFrame }

\* The key "0" frame with pair 20 neither a zero nor a one (sum above
\* 1680 us); the key "0" frame cut after the mark of its 17th pair (35
\* values); a frame whose only pair is neither a zero nor a one (sum below
\* 1680 us), with a trailing mark (5 values).
WalkFrames ==
  { WithSpace(Key0Frame, 20, Tick.long),
    SubSeq(Key0Frame, 1, 35),
    <<Tick.start, Tick.space, Tick.mark, Tick.noise, Tick.mark>> }

\* The signals of the specification below: the frames of KeyFrames and the repeat
\* frame.
KeySignals == KeyFrames \cup RepeatBursts

\* The light sensor asks for no step here; SpecAuto below turns the stepper.
NextKeys ==
  \/ StartBurst(KeySignals, MaxFrames)
  \/ Push
  \/ getPulses
  \/ decode_143
  \/ decode_144
  \/ decode_145
  \/ decode_121
  \/ decode_122
  \/ decode_123
  \/ decode_124
  \/ decode_147
  \/ decode_149
  \/ decode_150
  \/ decode_151
  \/ decode_152
  \/ decode_153
  \/ decode_154
  \/ decode_155
  \/ decode_156
  \/ decode_157
  \/ main_body(StillReadings)
  \/ _step

SpecKeys == Init /\ [][NextKeys]_vars

\* The frames of key "left" and key "right", which turn the stepper.
MotorFrames == { KeyFrame(key_left), KeyFrame(key_right) }

\* The signals of the specification below: the frames of MotorFrames and the repeat
\* frame.
MotorSignals == MotorFrames \cup RepeatBursts

NextRemote ==
  \/ StartBurst(MotorSignals, MaxFrames)
  \/ Push
  \/ getPulses
  \/ decode_143
  \/ decode_144
  \/ decode_145
  \/ decode_121
  \/ decode_122
  \/ decode_123
  \/ decode_124
  \/ decode_147
  \/ decode_149
  \/ decode_150
  \/ decode_151
  \/ decode_152
  \/ decode_153
  \/ decode_154
  \/ decode_155
  \/ decode_156
  \/ decode_157
  \/ main_body(Readings)
  \/ _step

SpecRemote == Init /\ [][NextRemote]_vars

\* Automatic mode: the key "OK" frame switches the loop to mode 1, where
\* Auto() turns the stepper by what the light sensor reports.
AutoSignals == { KeyOkFrame } \cup RepeatBursts

NextAuto ==
  \/ StartBurst(AutoSignals, MaxFrames)
  \/ Push
  \/ getPulses
  \/ decode_143
  \/ decode_144
  \/ decode_145
  \/ decode_121
  \/ decode_122
  \/ decode_123
  \/ decode_124
  \/ decode_147
  \/ decode_149
  \/ decode_150
  \/ decode_151
  \/ decode_152
  \/ decode_153
  \/ decode_154
  \/ decode_155
  \/ decode_156
  \/ decode_157
  \/ main_body(Readings)
  \/ _step

SpecAuto == Init /\ [][NextAuto]_vars

\* The signals of the specification below: the frames of WalkFrames and the repeat
\* frame.
WalkSignals == WalkFrames \cup RepeatBursts

NextWalk ==
  \/ StartBurst(WalkSignals, MaxFrames)
  \/ Push
  \/ getPulses
  \/ decode_143
  \/ decode_144
  \/ decode_145
  \/ decode_121
  \/ decode_122
  \/ decode_123
  \/ decode_124
  \/ decode_147
  \/ decode_149
  \/ decode_150
  \/ decode_151
  \/ decode_152
  \/ decode_153
  \/ decode_154
  \/ decode_155
  \/ decode_156
  \/ decode_157
  \/ main_body(Readings)
  \/ _step

SpecWalk == Init /\ [][NextWalk]_vars

-----------------------------------------------------------------------------
(* The Bit Classifier on its own: match against every expected value of the *)
(* decoder, checkZero and checkOne on pairs of values.                       *)

\* Observed values for the start pair: every fifth value up to 5 * MaxProbe.
WideVals == {5 * v : v \in 0 .. MaxProbe}

\* Observed values for checkZero and checkOne: the edges of the values that
\* match 560 (467..699) and 1680 (1401..2099), and values well inside and
\* outside.
PairVals == {0, 466, 467, 560, 699, 700, 1400, 1401, 1680, 2099, 2100, 9000}

MatchProbes ==
  [kind : {"match"}, val : 0 .. MaxProbe, expectedVal : ExpectedVals,
   done : {FALSE}, res : {FALSE}]
  \cup
  [kind : {"match"}, val : WideVals, expectedVal : {START_SPACE, START_MARK},
   done : {FALSE}, res : {FALSE}]

PairProbes ==
  [kind : {"pair"}, p1 : PairVals, p2 : PairVals,
   done : {FALSE}, zero : {FALSE}, one : {FALSE}]

InitClassifier ==
  /\ InitDecoder
  /\ commandRepeat = FALSE
  /\ probe \in MatchProbes \cup PairProbes
  /\ stepper = ULN2003(TRUE)

ProbeClassifier ==
  /\ ~probe.done
  /\ probe' = IF probe.kind = "match"
              THEN [probe EXCEPT !.done = TRUE,
                                 !.res = match(probe.val, probe.expectedVal)]
              ELSE [probe EXCEPT !.done = TRUE,
                                 !.zero = checkZero(probe.p1, probe.p2),
                                 !.one = checkOne(probe.p1, probe.p2)]
  /\ UNCHANGED <<srcQueue, lastSignal, nBursts, fifo, rawPulsesBuf, rawRepeatTimeBuf,
                 rawCommandTimeBuf, newRepeatFlag, newCommandFlag, necData,
                 commandRepeat, ret, via, pre, lastCode, cmdUnread, repUnread,
                 cb, call, owed, stepper, Application>>

NextClassifier == ProbeClassifier

SpecClassifier == InitClassifier /\ [][NextClassifier]_vars

-----------------------------------------------------------------------------
(* The stepper on its own.  The timer callback runs to completion between    *)
(* two statements of the main loop, so it may fire between the two stores of *)
(* move().                                                                   *)

MaxSteps == 9

MaxDegree == 1

Directions == {1, -1}

InitStepper ==
  /\ InitDecoder
  /\ commandRepeat = FALSE
  /\ probe = <<>>
  /\ stepper \in { ULN2003(half_step) : half_step \in BOOLEAN }

\* move(steps, direction) up to line 96.
move ==
  /\ call.pc = "idle"
  /\ \E steps \in -1 .. MaxSteps, direction \in Directions :
       stepper' = [stepper EXCEPT !.steps_sum = Steps(steps),
                                  !.at97 = <<direction>>,
                                  !.before = <<>>]
  /\ Goto("97")
  /\ NecIdle

\* degree(degree, direction): line 106 and move() up to line 96.
degree ==
  /\ call.pc = "idle"
  /\ \E deg \in 0 .. MaxDegree, direction \in Directions :
       stepper' = [stepper EXCEPT !.steps_sum = stepper.steps_pr_rotation * deg,
                                  !.at97 = <<direction>>,
                                  !.before = <<>>]
  /\ Goto("97")
  /\ NecIdle

\* The calls are made at the top of a loop in mode 0.
NextStepper == _step \/ move \/ degree \/ main_body(Readings)

SpecStepper == InitStepper /\ [][NextStepper]_vars

-----------------------------------------------------------------------------
(* Vocabulary of the properties.  A decode() call has just returned when     *)
(* ret # "none"; pre is the state in which it began.                         *)

Returned == ret # "none"

\* No timer callback ran during the decode() call that has just returned.
Sequential == call.callbacks = "none"

\* No burst was finalised during that call.
Undisturbed == call.callbacks # "finalised"

\* That call ran line 144, and the command burst it copied.
TookCommand == call.tookCommand

TakenCommand == call.rawPulses

\* That call ran line 150, and the repeat burst it copied.
TookRepeat == call.tookRepeat

TakenRepeat == call.rawRepeat

PairIsZero(buf, k) == checkZero(buf[3 + 2 * k], buf[4 + 2 * k])

PairIsOne(buf, k) == checkOne(buf[3 + 2 * k], buf[4 + 2 * k])

\* A valid command burst of 34 values: start pair, then 16 data pairs each a
\* valid zero or a valid one.
ValidFrame34(buf) ==
  /\ Len(buf) = 34
  /\ match(buf[1], 9000)
  /\ match(buf[2], 4500)
  /\ \A k \in 0 .. 15 : PairIsZero(buf, k) \/ PairIsOne(buf, k)

\* Bit 31-k for every data pair k that is a one.
ExpectedCode(buf) == { 31 - k : k \in { j \in 0 .. 15 : PairIsOne(buf, j) } }

\* The Frame Decoder rejects the burst: at the start pair or at a data pair.
Rejected(buf) ==
  /\ Len(buf) > 1
  /\ \/ startRejected(buf)
     \/ walkPairs(buf, 2, {}).ret = "false"

\* When the call began no repeat burst was pending.
NoRepeatPending == pre.s.rawRepeatTimeBuf = <<>>

\* The call found no command burst: it did not take the command path, or the
\* buffer it copied was empty.
NoCommandTaken == ~TookCommand \/ TakenCommand = <<>>

\* The call found no repeat burst.
NoRepeatTaken == ~TookRepeat \/ TakenRepeat = <<>>

\* The call copied a repeat burst.
RepeatTaken == TookRepeat /\ Len(TakenRepeat) = 2

\* The two values of a repeat burst match 9000 and 2250.
ValidRepeat(buf) == match(buf[1], 9000) /\ match(buf[2], 2250)

-----------------------------------------------------------------------------
(* C1.  A decode() call that takes a valid 34-value command burst from the   *)
(* pending command buffer returns true and leaves necData with bit 31-k set  *)
(* exactly for the data pairs k = 0..15 that are ones; bits 15..0 are zero.  *)
(* This holds whatever the timer callback does during the call.              *)
C1_ValidFrameDecodes ==
  (Returned /\ TookCommand /\ ValidFrame34(TakenCommand))
    => /\ ret = "true"
       /\ necData = ExpectedCode(TakenCommand)
       /\ necData \cap (0 .. 15) = {}

C1_Witness ==
  /\ Returned
  /\ TookCommand
  /\ ValidFrame34(TakenCommand)
  /\ ret = "true"
  /\ necData = {31, 29, 26, 24, 23, 21, 18, 16}

(* C2.  A decode() call that begins with a command burst the Frame Decoder   *)
(* rejects, and no repeat burst pending, returns false and leaves necData as *)
(* it was; stated for the calls during which no timer callback runs.         *)
C2_RejectedKeepsCode ==
  (Returned /\ Sequential /\ pre.s.newCommandFlag
            /\ Rejected(pre.s.rawCommandTimeBuf) /\ NoRepeatPending)
    => /\ ret = "false"
       /\ necData = pre.s.necData

(* C3.  With commandRepeat false, a decode() call that finds no command      *)
(* burst and takes a valid repeat burst returns true and necData is          *)
(* 0xffffffff.                                                               *)
C3_RepeatSentinel ==
  (Returned /\ ~commandRepeat /\ NoCommandTaken /\ RepeatTaken
            /\ ValidRepeat(TakenRepeat))
    => /\ ret = "true"
       /\ necData = AllBits

C3_Witness ==
  /\ Returned
  /\ ~commandRepeat
  /\ NoCommandTaken
  /\ RepeatTaken
  /\ TakenRepeat = <<9000, 2250>>
  /\ pre.s.necData = {31}
  /\ ret = "true"
  /\ necData = AllBits

(* C4.  With commandRepeat true, a decode() call that finds no command burst *)
(* and takes a valid repeat burst returns true and necData is as it was      *)
(* when the call began.                                                      *)
C4_RepeatKeepsCode ==
  (Returned /\ commandRepeat /\ NoCommandTaken /\ RepeatTaken
            /\ ValidRepeat(TakenRepeat))
    => /\ ret = "true"
       /\ necData = pre.s.necData

C4_Witness ==
  /\ Returned
  /\ commandRepeat
  /\ NoCommandTaken
  /\ RepeatTaken
  /\ TakenRepeat = <<9000, 2250>>
  /\ pre.s.necData = {31}
  /\ ret = "true"
  /\ via = "repeat"
  /\ necData = {31}

(* C5.  With commandRepeat true, once a command has been decoded, every      *)
(* decode() call that returns true for a repeat burst leaves necData equal   *)
(* to the code of the most recent successful command decode.                 *)
C5_RepeatShowsLastCode ==
  (Returned /\ commandRepeat /\ ret = "true" /\ via = "repeat" /\ lastCode # <<>>)
    => necData = lastCode[1]

(* C6.  A decode() call that finds no command burst and takes an invalid     *)
(* repeat burst returns false and necData is as it was when the call began,  *)
(* under either policy.                                                      *)
C6_InvalidRepeat ==
  (Returned /\ NoCommandTaken /\ RepeatTaken /\ ~ValidRepeat(TakenRepeat))
    => /\ ret = "false"
       /\ necData = pre.s.necData

C6_Witness ==
  /\ Returned
  /\ ~commandRepeat
  /\ NoCommandTaken
  /\ RepeatTaken
  /\ match(TakenRepeat[1], START_MARK)
  /\ ~match(TakenRepeat[2], REPEAT_SPACE)
  /\ pre.s.necData = {31}
  /\ ret = "false"
  /\ necData = {31}

(* C7.  A decode() call that finds the command-ready flag set and takes a    *)
(* burst of fewer than 2 values, and finds no repeat burst, returns false    *)
(* and leaves necData as it was when the call began.                         *)
C7_ShortBurst ==
  (Returned /\ TookCommand /\ Len(TakenCommand) < 2 /\ NoRepeatTaken)
    => /\ ret = "false"
       /\ necData = pre.s.necData

C7_Witness ==
  /\ Returned
  /\ TookCommand
  /\ pre.cmdUnread
  /\ Len(TakenCommand) = 1
  /\ NoRepeatTaken
  /\ pre.s.necData = {31}
  /\ ret = "false"
  /\ necData = {31}

(* C8.  When every burst finalised so far has been read by an earlier        *)
(* decode() call and none is finalised during the call, a further decode()   *)
(* call returns false and leaves necData as it was; nothing becomes unread   *)
(* by it, so this holds for every repetition.                                *)
C8_IdlePollIdempotent ==
  (Returned /\ Undisturbed /\ ~pre.cmdUnread /\ ~pre.repUnread)
    => /\ ret = "false"
       /\ necData = pre.s.necData
       /\ ~cmdUnread
       /\ ~repUnread

C8_Witness ==
  /\ Returned
  /\ Undisturbed
  /\ ~pre.cmdUnread
  /\ ~pre.repUnread
  /\ pre.s.newRepeatFlag
  /\ pre.s.necData = AllBits
  /\ pre.s.ret = "none"
  /\ ret = "false"
  /\ necData = AllBits

(* C9 as stated.  Against the expected value 560, an observed 666 matches    *)
(* and an observed 677 does not.                                             *)
C9_Boundary121Rejected ==
  (probe # <<>> /\ probe.res # "none" /\ probe.expectedVal = DATA_PULSE_WIDTH)
    => /\ (probe.val = 666 => probe.res = "true")
       /\ (probe.val = 677 => probe.res = "false")

(* C9 amended.  Against the expected value 560, an observed 666 matches and  *)
(* an observed 677 matches too: the tolerance is a fifth of the observed     *)
(* value, so the values that match 560 are exactly 467..699.                 *)
C9_ToleranceScaledByObserved ==
  (probe # <<>> /\ probe.res # "none" /\ probe.expectedVal = DATA_PULSE_WIDTH)
    => /\ (probe.val = 666 => probe.res = "true")
       /\ (probe.val = 677 => probe.res = "true")
       /\ (probe.res = "true" <=> probe.val \in 467 .. 699)

C9_Witness ==
  /\ probe # <<>>
  /\ probe.expectedVal = DATA_PULSE_WIDTH
  /\ probe.val = 677
  /\ probe.res = "true"

\* The key "0" prefix frame has been delivered and drained to the end, and the
\* decode() call that has just returned was the first to read it: 34 values.
\* Nothing was finalised during the call, so what it took is that frame.
Key0Delivered ==
  /\ Returned
  /\ Undisturbed
  /\ lastSignal = Key0Frame16
  /\ srcQueue = <<>>
  /\ fifo = <<>>
  /\ rawPulsesBuf = <<>>
  /\ pre.cmdUnread
  /\ TookCommand
  /\ Len(TakenCommand) = 34

(* C10 as stated.  After the counts 1152, 576 and the 16 data pairs of the   *)
(* key "0" frame, then the timeout word, have been drained, the next         *)
(* decode() returns true and necData is key_0 = 0xff9867.                    *)
C10_Key0EndToEnd ==
  Key0Delivered => (ret = "true" /\ necData = BitsOf(key_0))

(* C10 amended.  After those counts have been drained into an empty command  *)
(* buffer, the next decode() returns true and necData is 0x00ff0000: the 16  *)
(* data pairs fill bits 31..16 with 0x00ff and bits 15..0 stay zero.         *)
C10_Key0Prefix ==
  Key0Delivered
    => /\ TakenCommand[1] = 9000
       /\ TakenCommand[2] = 4500
       /\ ret = "true"
       /\ Hi16(necData) = Hi16(BitsOf(key_0))
       /\ Lo16(necData) = 0

C10_Witness ==
  /\ Key0Delivered
  /\ ret = "true"
  /\ necData = 16 .. 23
  /\ Lo16(BitsOf(key_0)) = 39015


\* ---------------------------------------------------------------------------
\* C11  (decode, lines 142-157)

(* C11.  A decode() call that finds newCommandFlag set at entry, also one    *)
(* during which no timer callback runs, neither copies nor clears the        *)
(* pending repeat burst, and its return value is not decided on the repeat   *)
(* path, whether the command burst is accepted or rejected.                  *)
C11_PathsExclusive ==
  (Returned /\ Sequential /\ pre.s.newCommandFlag)
    => /\ ~call.tookRepeat
       /\ rawRepeatTimeBuf = pre.s.rawRepeatTimeBuf
       /\ via # "repeat"

\* ---------------------------------------------------------------------------
\* Vocabulary of the claims about the timer callback

\* A getPulses call has just returned.
CalledBack == cb # NoCallback

\* The getPulses call that has just returned took the timeout marker.
Finalised == CalledBack /\ cb.fifo # <<>> /\ Head(cb.fifo) = TimeoutMarker

\* The accumulator it finalised.
FinalisedCode == cb.rawPulsesBuf

FinalisedCommand == Finalised /\ Len(FinalisedCode) # 2

FinalisedRepeat == Finalised /\ Len(FinalisedCode) = 2

\* ---------------------------------------------------------------------------
\* C12  (convertToMS, lines 82-91)

(* C12.  When a command burst is finalised, the pending command buffer       *)
(* afterwards is exactly the microsecond conversion of that burst, also      *)
(* when an earlier command burst was still pending: the buffer never holds   *)
(* more than one finalised burst.                                            *)
C12_NewestCommandOnly ==
  FinalisedCommand => rawCommandTimeBuf = ToMSAll(FinalisedCode)

\* ---------------------------------------------------------------------------
\* C13  (convertToMS, lines 82-91)

(* C13.  Finalising a command burst leaves rawRepeatTimeBuf and              *)
(* newRepeatFlag unchanged, and finalising a repeat burst leaves             *)
(* rawCommandTimeBuf and newCommandFlag unchanged.                           *)
C13_NoCrossKind ==
  /\ FinalisedCommand => /\ rawRepeatTimeBuf = cb.rawRepeatTimeBuf
                         /\ newRepeatFlag = cb.newRepeatFlag
  /\ FinalisedRepeat => /\ rawCommandTimeBuf = cb.rawCommandTimeBuf
                        /\ newCommandFlag = cb.newCommandFlag

\* ---------------------------------------------------------------------------
\* C16  (getPulses, lines 93-100)

(* C16, as stated.  When getPulses returns, the FIFO is empty: every word    *)
(* it held when the call began has been taken.                               *)
C16_DrainsAll == CalledBack => fifo = <<>>

(* C16, amended.  getPulses takes at most one word: from a FIFO of n >= 1    *)
(* words it takes the head alone and leaves the other n - 1 in order, the    *)
(* head being appended to the accumulator as pulseTimeout - word or, when    *)
(* it is the timeout marker, finalising the accumulator; from an empty FIFO  *)
(* it takes nothing and changes nothing.                                     *)
C16_TakesOneWord ==
  CalledBack =>
    IF cb.fifo = <<>>
    THEN /\ fifo = <<>>
         /\ rawPulsesBuf = cb.rawPulsesBuf
         /\ rawCommandTimeBuf = cb.rawCommandTimeBuf
         /\ rawRepeatTimeBuf = cb.rawRepeatTimeBuf
         /\ newCommandFlag = cb.newCommandFlag
         /\ newRepeatFlag = cb.newRepeatFlag
    ELSE /\ fifo = Tail(cb.fifo)
         /\ rawPulsesBuf = IF Head(cb.fifo) = -1 THEN <<>>
                           ELSE Append(cb.rawPulsesBuf, 4095 - Head(cb.fifo))

\* A call that found two words has returned.
C16_Witness ==
  /\ CalledBack
  /\ Len(cb.fifo) = 2
  /\ Len(fifo) = 1
  /\ fifo[1] = cb.fifo[2]
  /\ rawPulsesBuf = Append(cb.rawPulsesBuf, 4095 - cb.fifo[1])

\* ---------------------------------------------------------------------------
\* C17  (convertToMS, lines 82-91)

(* C17, as stated.  On the timeout marker newRepeatFlag is raised exactly    *)
(* when the accumulator holds 2 values and newCommandFlag exactly when it    *)
(* holds more than 2; with 0 or 1 values neither flag is raised.             *)
C17_ClassifiedByLength ==
  Finalised =>
    /\ Len(FinalisedCode) = 2 => newRepeatFlag
    /\ Len(FinalisedCode) # 2 => newRepeatFlag = cb.newRepeatFlag
    /\ Len(FinalisedCode) > 2 => newCommandFlag
    /\ Len(FinalisedCode) <= 2 => newCommandFlag = cb.newCommandFlag

(* C17, amended.  On the timeout marker newRepeatFlag is raised (and the     *)
(* converted burst stored as the repeat burst) exactly when the accumulator  *)
(* holds 2 values, and newCommandFlag is raised (and the converted burst     *)
(* appended to the command buffer) exactly when it holds any other number    *)
(* of values, 0 and 1 included.                                              *)
C17_TwoOrOther ==
  Finalised =>
    IF Len(FinalisedCode) = 2
    THEN /\ newRepeatFlag
         /\ rawRepeatTimeBuf = ToMSAll(FinalisedCode)
         /\ newCommandFlag = cb.newCommandFlag
         /\ rawCommandTimeBuf = cb.rawCommandTimeBuf
    ELSE /\ newCommandFlag
         /\ rawCommandTimeBuf = cb.rawCommandTimeBuf \o ToMSAll(FinalisedCode)
         /\ newRepeatFlag = cb.newRepeatFlag

\* A burst of one value has been finalised while no command was pending.
C17_Witness ==
  /\ Finalised
  /\ Len(FinalisedCode) = 1
  /\ ~cb.newCommandFlag
  /\ newCommandFlag
  /\ rawCommandTimeBuf = <<9000>>

\* ---------------------------------------------------------------------------
\* C19  (match, checkZero, checkOne, lines 111-118)

\* The rule of the claim: v is within a fifth of itself of e.
WithinFifth(v, e) == 5 * Abs(v - e) < v

(* C19.  match(v, e) holds exactly when 5 * |v - e| < v; checkZero(p1, p2)   *)
(* holds exactly when p1 and p2 both match 560, and checkOne(p1, p2) exactly *)
(* when p1 matches 560 and p2 matches 1680.                                  *)
C19_BitClassifier ==
  (probe # <<>> /\ probe.done)
    => IF probe.kind = "match"
       THEN probe.res <=> WithinFifth(probe.val, probe.expectedVal)
       ELSE /\ probe.zero <=> (WithinFifth(probe.p1, 560) /\ WithinFifth(probe.p2, 560))
            /\ probe.one <=> (WithinFifth(probe.p1, 560) /\ WithinFifth(probe.p2, 1680))

\* A pair at the upper edge of a one has been classified: a one, not a zero.
C19_Witness ==
  /\ probe # <<>>
  /\ probe.done
  /\ probe.kind = "pair"
  /\ probe.p1 = 560
  /\ probe.p2 = 2099
  /\ probe.one
  /\ ~probe.zero

\* ---------------------------------------------------------------------------
\* C20  (decodeCommand, lines 124-126)

\* The command burst the decode() call that has just returned took.
PendingCommand == TakenCommand

\* That call took a command burst of more than one value and found no repeat
\* burst.
DecodedCommand ==
  /\ Returned
  /\ TookCommand
  /\ NoRepeatTaken
  /\ Len(PendingCommand) > 1

(* C20.  For a command burst of more than one value, decoding stops at the   *)
(* start pair (false, necData 0) exactly when the first value does not match *)
(* 9000 and the second does not match 4500; when at least one of the two     *)
(* matches, the result and necData are those of the walk over the data       *)
(* pairs.                                                                    *)
C20_StartRule ==
  DecodedCommand =>
    IF ~match(PendingCommand[1], 9000) /\ ~match(PendingCommand[2], 4500)
    THEN ret = "false" /\ necData = {}
    ELSE LET w == walkPairs(PendingCommand, 2, {})
         IN  ret = w.ret /\ necData = w.necData

\* A burst whose first value (7500 us) does not match 9000 and whose second
\* is 4500 has been decoded: accepted, with the bit of its one pair set.
C20_Witness ==
  /\ DecodedCommand
  /\ PendingCommand = <<7500, 4500, 562, 1679>>
  /\ ret = "true"
  /\ necData = {31}

\* ---------------------------------------------------------------------------
\* C15  (decodeCommand, lines 128-131; decode, lines 149-156)

(* C15.  Every decode() call completes and returns a boolean, whatever the   *)
(* length and contents of the pending bursts: no call ends in an exception.  *)
C15_NeverRaises == Returned => ret \in {"true", "false"}

\* ---------------------------------------------------------------------------
\* C14  (decode, lines 142-148; decodeCommand, lines 120-123)

(* C14.  With getPulses free to run between any two statements of decode(),  *)
(* a command burst finalised into an empty command buffer is passed to       *)
(* decodeCommand as it is by some decode() call, unless a newer command      *)
(* burst is finalised first: no burst is lost because it was finalised       *)
(* during a decode() call.  decodeCommand is only ever passed a copy of the  *)
(* pending command buffer, so between calls the burst finalised last, as     *)
(* long as it has not been passed on, is still the pending command burst.    *)
C14_HandedOver ==
  (BetweenCalls /\ owed # <<>> /\ owed[1].alone)
    => rawCommandTimeBuf = owed[1].burst

\* ---------------------------------------------------------------------------
\* C18  (decode, lines 142-153; convertToMS, lines 82-91)

(* C18.  With getPulses free to run between any two statements of decode(),  *)
(* whenever no decode() call is in progress a non-empty pending command      *)
(* buffer implies that newCommandFlag is set.                                *)
C18_BufferImpliesFlag ==
  (BetweenCalls /\ rawCommandTimeBuf # <<>>) => newCommandFlag

\* ---------------------------------------------------------------------------
\* C21  (decodeCommand, lines 128-139)

\* The data pairs of a burst: pair k (0-based) is buf[3 + 2k], buf[4 + 2k];
\* a last value without a partner belongs to no pair.
NPairs(buf) == (Len(buf) - 2) \div 2

\* Pair k is what its sum says it should be.
PairPasses(buf, k) ==
  IF buf[3 + 2 * k] + buf[4 + 2 * k] > 1680 THEN PairIsOne(buf, k) ELSE PairIsZero(buf, k)

\* The first pair that fails, NPairs(buf) when none does.
FirstFailing(buf) ==
  LET failing == { k \in 0 .. NPairs(buf) - 1 : ~PairPasses(buf, k) }
  IN  IF failing = {} THEN NPairs(buf)
      ELSE CHOOSE k \in failing : \A j \in failing : k <= j

\* The decode() call that has just returned passed a burst of 2..66 values to
\* decodeCommand, and the burst was not rejected at its start pair.
WalkedCommand ==
  /\ Returned
  /\ TookCommand
  /\ Len(TakenCommand) \in 2 .. 66
  /\ match(TakenCommand[1], 9000) \/ match(TakenCommand[2], 4500)

(* C21.  For a burst of 2..66 values that passes the start pair,             *)
(* decodeCommand returns true exactly when every data pair passes (checkOne  *)
(* when its sum exceeds 1680, checkZero otherwise); the walk stops at the    *)
(* first pair that fails, so necData holds the ones before it only; a last   *)
(* value without a partner is ignored.                                       *)
C21_PairWalk ==
  WalkedCommand =>
    LET buf == TakenCommand
        f   == FirstFailing(buf)
    IN  /\ (ret = "true" /\ via = "command") <=> f = NPairs(buf)
        /\ via # "repeat" =>
             necData = { 31 - k : k \in { j \in 0 .. f - 1 : PairIsOne(buf, j) } }

\* The key "0" frame with its 21st pair spoilt has been decoded: rejected,
\* with the ones of the first 20 pairs (0x00ff9...) left in necData.
C21_Witness ==
  /\ WalkedCommand
  /\ Len(TakenCommand) = 66
  /\ FirstFailing(TakenCommand) = 20
  /\ ret = "false"
  /\ necData = {23, 22, 21, 20, 19, 18, 17, 16, 15, 12}

\* ---------------------------------------------------------------------------
\* C22  (convertToMS, lines 82-91; getPulses, lines 93-100)

\* floor(ticks * 2000000 / 256000), the fraction reduced to 125 / 16.
Microseconds(ticks) == (ticks * 125) \div 16

\* The getPulses call that has just returned took the timeout word of the
\* burst measured last, and no word of it is left anywhere.
FinalisedLastSignal ==
  /\ Finalised
  /\ srcQueue = <<>>
  /\ fifo = <<>>

(* C22.  When the timeout word of a burst is taken, the burst that is stored *)
(* (the repeat burst for 2 values, the command burst otherwise) consists,    *)
(* in order, of exactly the tick counts measured since the previous timeout  *)
(* word, each converted to floor(ticks * 2000000 / 256000) microseconds,     *)
(* and the accumulator is empty afterwards.                                  *)
C22_StoredBurst ==
  FinalisedLastSignal =>
    LET burst  == [i \in 1 .. Len(lastSignal) |-> Microseconds(lastSignal[i])]
        stored == IF Len(lastSignal) = 2 THEN rawRepeatTimeBuf ELSE rawCommandTimeBuf
    IN  /\ stored = burst
        /\ rawPulsesBuf = <<>>

\* ---------------------------------------------------------------------------
\* C23  (decodeCommand, lines 120-123; decode, lines 143-148)

(* C23.  After a decode() call (no timer callback during it) that found      *)
(* newCommandFlag set, newCommandFlag is false and rawCommandTimeBuf is      *)
(* empty, whether the burst was decoded, rejected or too short.              *)
C23_CommandIdleAgain ==
  (Returned /\ Sequential /\ pre.s.newCommandFlag)
    => (~newCommandFlag /\ rawCommandTimeBuf = <<>>)

\* ---------------------------------------------------------------------------
\* C24  (decode, lines 149-157; convertToMS, lines 85-87)

(* C24.  After a decode() call that consumed a pending repeat burst,         *)
(* accepted or rejected, newRepeatFlag is false; stated for the calls during *)
(* which no timer callback runs.                                             *)
C24_RepeatIdleAgain ==
  (Returned /\ Sequential /\ via = "repeat") => ~newRepeatFlag

\* ---------------------------------------------------------------------------
\* C25  (decode, lines 149-157)

\* The decode() call that has just returned took the repeat path and the
\* repeat burst it copied was not empty.
TookRepeatPath ==
  /\ Returned
  /\ TookRepeat
  /\ TakenRepeat # <<>>

(* C25, as stated.  When decode() takes the repeat path with a non-empty     *)
(* repeat burst, rawRepeatTimeBuf is empty and newCommandFlag is false when  *)
(* it returns, whether or not the repeat frame is valid, and it returns true *)
(* only if the repeat frame is valid.                                        *)
C25_RepeatPathEffects ==
  TookRepeatPath =>
    /\ rawRepeatTimeBuf = <<>>
    /\ ~newCommandFlag
    /\ ret = "true" => ValidRepeat(TakenRepeat)

(* C25, amended.  When decode() takes the repeat path with a non-empty       *)
(* repeat burst, it returns true only if the repeat frame is valid, and      *)
(* rawRepeatTimeBuf is empty and newCommandFlag is false when it returns     *)
(* unless the timer callback has finalised a burst during the call: a burst  *)
(* finalised after line 151 or line 153 is pending when the call returns.    *)
C25_UnlessFinalised ==
  TookRepeatPath =>
    /\ Undisturbed => (rawRepeatTimeBuf = <<>> /\ ~newCommandFlag)
    /\ ret = "true" => (via = "repeat" /\ ValidRepeat(TakenRepeat))

\* A too-short command burst and then an invalid repeat burst were pending:
\* the call returned false and left newCommandFlag cleared.
C25_Witness ==
  /\ TookRepeatPath
  /\ Undisturbed
  /\ pre.s.newCommandFlag
  /\ TakenRepeat = <<562, 2250>>
  /\ ret = "false"
  /\ ~newCommandFlag
  /\ rawRepeatTimeBuf = <<>>

\* ---------------------------------------------------------------------------
\* C26  (convertToMS, lines 82-87; decode, lines 149-156)

(* C26.  In every reachable state, with getPulses free to run between any    *)
(* two statements of decode(), rawRepeatTimeBuf holds 0 or exactly 2 values, *)
(* and so does the copy decode() validates: rawRepeat[1] is read only from   *)
(* a copy of 2 values.                                                       *)
C26_RepeatLength ==
  /\ Len(rawRepeatTimeBuf) \in {0, 2}
  /\ Len(call.rawRepeat) \in {0, 2}
  /\ call.pc \in {"153", "154"} => Len(call.rawRepeat) = 2

\* decode() is about to validate its copy of a repeat burst while the
\* callback has already finalised the next repeat burst.
C26_Witness ==
  /\ call.pc = "154"
  /\ call.rawRepeat = <<9000, 2250>>
  /\ rawRepeatTimeBuf = <<9000, 2250>>

\* ---------------------------------------------------------------------------
\* C27  (decodeCommand, lines 128-139; main.py, lines 17-34)

\* A command burst of 66 values: a valid start pair and 32 data pairs, each
\* a valid zero or a valid one.
ValidFrame66(buf) ==
  /\ Len(buf) = 66
  /\ match(buf[1], 9000)
  /\ match(buf[2], 4500)
  /\ \A k \in 0 .. 31 : PairIsZero(buf, k) \/ PairIsOne(buf, k)

\* The word the data pairs spell, most significant bit first, as its set bits.
WordOf(buf) == { 31 - k : k \in { j \in 0 .. 31 : PairIsOne(buf, j) } }

\* The decode() call that has just returned took the frame, on its own, as
\* the pulse source measured it.
KeyDelivered(frame) ==
  /\ Returned
  /\ TookCommand
  /\ TakenCommand = ToMSAll(frame)


(* C27.  For a pending command burst of 66 values, a valid start pair and    *)
(* 32 valid data pairs spelling the word W most significant bit first,       *)
(* decode() returns true and necData is W; the frame of 0x00ff9867 gives     *)
(* key_0 and the frame of 0x00ff38c7 gives key_ok.                           *)
C27_KeyTable ==
  /\ (Returned /\ TookCommand /\ ValidFrame66(TakenCommand))
       => (ret = "true" /\ necData = WordOf(TakenCommand))
  /\ KeyDelivered(Key0Frame) => (ret = "true" /\ necData = Key0Code)
  /\ KeyDelivered(KeyOkFrame) => (ret = "true" /\ necData = KeyOkCode)

\* The key "OK" frame has been decoded to 0x00ff38c7.
C27_Witness ==
  /\ KeyDelivered(KeyOkFrame)
  /\ ValidFrame66(TakenCommand)
  /\ ret = "true"
  /\ necData = {23, 22, 21, 20, 19, 18, 17, 16, 13, 12, 11, 7, 6, 2, 1, 0}

-----------------------------------------------------------------------------
(* C28.  Whatever move() and degree() calls with direction 1 or -1 and timer  *)
(* callbacks have run, index is a row of the step table; and a timer         *)
(* callback that found steps_sum > 0 has moved index one row in the          *)
(* direction it found, from the last row to the first forwards and from the  *)
(* first to the last backwards (7 -> 0 and 0 -> 7 with the half-step table), *)
(* and has taken one step off steps_sum.                                     *)

Ticked == stepper.before # <<>>

TickedFrom(index, direction) ==
  /\ Ticked
  /\ stepper.before[1].steps_sum > 0
  /\ stepper.before[1].index = index
  /\ stepper.before[1].direction = direction

HalfStep == Len(stepper.step_table) = 8

C28_StepperSequencing ==
  LET len == Len(stepper.step_table)
  IN  /\ stepper.index \in 0 .. len - 1
      /\ (Ticked /\ stepper.before[1].steps_sum > 0) =>
            /\ stepper.direction = stepper.before[1].direction
            /\ stepper.index = (stepper.before[1].index + stepper.direction) % len
            /\ stepper.steps_sum = stepper.before[1].steps_sum - Steps(1)
      /\ (HalfStep /\ TickedFrom(7, 1)) => stepper.index = 0
      /\ (HalfStep /\ TickedFrom(0, -1)) => stepper.index = 7

C28_Witness ==
  /\ HalfStep
  /\ TickedFrom(0, -1)
  /\ stepper.index = 7
  /\ stepper.pins = <<1, 0, 0, 1>>
  /\ stepper.steps_sum < Steps(1)

=============================================================================
